---- MODULE Spec2Model ----
(***************************************************************************)
(* Model of the dashboard statistics of RepoMonitor:                       *)
(*   src/src/pages/Dashboard.tsx  (fetchStats, the realtime subscriptions  *)
(*                                 and the manual refresh handlers)        *)
(*   src/src/lib/github.ts        (GitHubClientImpl.request)               *)
(* JavaScript is single threaded: every action below is one synchronous    *)
(* segment of a handler, from the resolution of one await to the next.     *)
(***************************************************************************)
EXTENDS Integers, Sequences, FiniteSets, TLC

\* ---------------------------------------------------------------- bounds
MaxRepos == 3
MaxCount == 2
MaxClicks == 1
MaxJobs == 1
MaxEvents == 2
MaxMergeRepos == 3
MaxClients == 3      \* GitHubClientImpl instances constructed
MaxRequests == 2     \* requests issued through github.ts
MaxIntervals == 1    \* refill intervals that elapse
\* tokensPerInterval: 5000 in github.ts, reduced for the model
tokensPerInterval == 1
MaxRaceRepos == 1    \* rows of `repositories` when handlers overlap

\* ------------------------------------------------------ program constants
batchSize == 2
Absent == 0 - 1

Runs == {"auto", "manual"}
Users == {"u1", "u2"}
SimpleKeys == {"trackedRepos", "analyzedRepos", "activeAutomations"}
Keys == {"openIssues"} \cup SimpleKeys

VARIABLES
  stats,            \* useState<DashboardStats>
  refreshing,       \* useState<{[key]: boolean}>
  mounted,          \* the `mounted` flag of the first effect
  toasts,           \* the toasts emitted so far, in order
  table,            \* the rows of the `repositories` table (owner, name)
  remote,           \* what the GitHub side answers for each repository
  pc,               \* position of each aggregation run
  repositories,     \* the work list each run fetched
  i,                \* outer loop index of each run
  j,                \* position inside the current batch
  totalOpenIssues,  \* accumulator of each run
  failedRepos,      \* accumulator of each run
  calls,            \* per run: identifiers whose remote call resolved
  batches,          \* per run: the slices taken by repositories.slice
  delays,           \* per run: number of inter-batch timeouts started
  writes,           \* per run: number of setStats({openIssues}) updates
  clearCalls,       \* per run: GitHubTokenManager.clearToken invocations
  toasted,          \* per run: number of toasts the run emitted
  started,          \* per run: identifiers whose remote call was started
  added,            \* per run: identifiers whose count was added
  clicks,           \* number of clicks on the Open Issues refresh button
  userLimiters,     \* github.ts userLimiters: userId -> limiter (0: no entry)
  limiters,         \* the RateLimiter objects constructed so far
  clients,          \* the GitHubClientImpl objects constructed so far
  reqs,             \* the requests made through github.ts
  issued,           \* per user: fetches issued since the last refill
  refills,          \* refill intervals elapsed
  tokenClears,      \* GitHubTokenManager.clearToken() calls of github.ts
  refreshPc,        \* position of each of the three other refresh handlers
  refreshes,        \* clicks on each of the three other refresh buttons
  answered,         \* per realtime callback: the count the database computed
  refreshAnswered,  \* per refresh handler: the count the database computed
  refreshSeen,      \* per refresh handler: callbacks started before it
  counted,          \* fetchStats: the counts already read (lines 33-55)
  db,               \* the counts the database answers at this moment
  handlers          \* the realtime callbacks started so far

runVars == <<pc, repositories, i, j, totalOpenIssues, failedRepos,
             calls, batches, delays, writes, clearCalls, toasted, started,
             added, counted>>
clientVars == <<userLimiters, limiters, clients, reqs, issued, refills,
                tokenClears>>
refreshVars == <<refreshPc, refreshes>>
raceVars == <<answered, refreshAnswered, refreshSeen>>
envVars == <<table, remote, clientVars, refreshVars, raceVars>>
vars == <<stats, refreshing, mounted, toasts, clicks, db, handlers,
          envVars, runVars>>

\* ------------------------------------------------------------ work items
Repo(k) == [owner |-> "a", name |-> "r" \o ToString(k)]

RepoId(repo) == repo.owner \o "/" \o repo.name

Table(n) == [k \in 1..n |-> Repo(k)]

\* ---------------------------------------------------------- remote side
\* One answer of the GitHub side to a withGitHub call: either the wrapper
\* resolves to null without a count, or the HTTP response of the request.
Responses ==
  [via : {"http"}, status : {200}, remaining : {"1"},
   total_count : {Absent} \cup (1..MaxCount)]
  \cup [via : {"http"}, status : {401, 500}, remaining : {"1"},
        total_count : {Absent}]
  \cup [via : {"http"}, status : {403}, remaining : {"0", "1"},
        total_count : {Absent}]
  \cup [via : {"null"}, status : {200}, remaining : {"1"},
        total_count : {Absent}]

ok(resp) == resp.status >= 200 /\ resp.status <= 299

\* Variant: every 403 is taken for an exhausted quota.
request_Any403(resp) ==
  IF ~ok(resp)
  THEN IF resp.status = 401
       THEN [threw |-> TRUE, cleared |-> TRUE,
             message |-> "GitHub token is invalid or expired",
             body |-> Absent]
       ELSE IF resp.status = 403
       THEN [threw |-> TRUE, cleared |-> FALSE,
             message |-> "rate limit exceeded", body |-> Absent]
       ELSE [threw |-> TRUE, cleared |-> FALSE,
             message |-> "GitHub API error: " \o ToString(resp.status),
             body |-> Absent]
  ELSE [threw |-> FALSE, cleared |-> FALSE, message |-> "",
        body |-> resp.total_count]

\* GitHubClientImpl.request: the outcome of one request
request(resp) ==
  IF ~ok(resp)
  THEN IF resp.status = 401
       THEN [threw |-> TRUE, cleared |-> TRUE,
             message |-> "GitHub token is invalid or expired",
             body |-> Absent]
       ELSE IF resp.status = 403 /\ resp.remaining = "0"
       THEN [threw |-> TRUE, cleared |-> FALSE,
             message |-> "rate limit exceeded", body |-> Absent]
       ELSE [threw |-> TRUE, cleared |-> FALSE,
             message |-> "GitHub API error: " \o ToString(resp.status),
             body |-> Absent]
  ELSE [threw |-> FALSE, cleared |-> FALSE, message |-> "",
        body |-> resp.total_count]

\* response?.total_count || 0
CountOrZero(body) == IF body = Absent \/ body = 0 THEN 0 ELSE body

\* client.searchRepositoryIssues(owner, name, ...) goes through request
searchRepositoryIssues(resp) == request(resp)

\* withGitHub(async client => ...): null, or the callback's result
withGitHub(resp) ==
  IF resp.via = "null"
  THEN [threw |-> FALSE, cleared |-> FALSE, isNull |-> TRUE, count |-> 0]
  ELSE LET r == searchRepositoryIssues(resp)
       IN [threw |-> r.threw, cleared |-> r.cleared, isNull |-> FALSE,
           count |-> IF r.threw THEN 0 ELSE CountOrZero(r.body)]

\* ------------------------------------------------------------- reporter
RECURSIVE Join(_)
Join(s) ==
  IF Len(s) = 0 THEN ""
  ELSE IF Len(s) = 1 THEN s[1]
  ELSE s[1] \o ", " \o Join(Tail(s))

WarningToast(failed) ==
  [title |-> "Warning",
   description |-> "Failed to fetch issues for: " \o Join(failed)]

ErrorToast(r) ==
  [title |-> "Error",
   description |-> IF r = "auto"
                   THEN "Failed to load some dashboard statistics."
                   ELSE "Failed to refresh open issues count."]

\* Variant: the commit adds the total to the value already shown.
MergeOpenIssues_Add(prev, total) == [prev EXCEPT !.openIssues = @ + total]

\* setStats(prev => ({...prev, openIssues: totalOpenIssues}))
MergeOpenIssues(prev, total) == [prev EXCEPT !.openIssues = total]

\* Variant: the update keeps the flag it sets and drops the others.
SetRefreshing_Only(prev, key, value) ==
  [k \in Keys |-> IF k = key THEN value ELSE FALSE]

\* setRefreshing(prev => ({ ...prev, [key]: value }))
SetRefreshing(prev, key, value) == [prev EXCEPT ![key] = value]

\* setStats(prev => ({...prev, trackedRepos, analyzedRepos, activeAutomations}))
MergeCounts(prev, t, a, n) ==
  [prev EXCEPT !.trackedRepos = t, !.analyzedRepos = a,
               !.activeAutomations = n]

\* Variant: a full overwrite that resets the fields of the other sources.
MergeRepoCounts_Overwrite(prev, t, a) ==
  [openIssues |-> 0, trackedRepos |-> t, analyzedRepos |-> a,
   activeAutomations |-> 0]

\* setStats(prev => ({...prev, trackedRepos, analyzedRepos}))
MergeRepoCounts(prev, t, a) ==
  [prev EXCEPT !.trackedRepos = t, !.analyzedRepos = a]

\* setStats(prev => ({...prev, activeAutomations}))
MergeAutomations(prev, n) == [prev EXCEPT !.activeAutomations = n]

\* `if (mounted)` of fetchStats; refreshStats.openIssues has no such guard
Live(r) == r = "manual" \/ mounted

\* repositories.slice(i, i + batchSize), i zero-based
Slice(list, from) ==
  SubSeq(list, from + 1,
         IF from + batchSize < Len(list) THEN from + batchSize ELSE Len(list))

\* ------------------------------------------------------------ the state
\* The response of a count query that is under way: the count the database
\* computed for it, or nothing yet.
NotYet == [done |-> FALSE, count |-> 0]

\* const { count } = await supabase...: the count the database computed,
\* at the latest when the response is delivered.
Answer(a, now) == IF a.done THEN a.count ELSE now

TypeOK ==
  /\ stats \in [openIssues : Nat, trackedRepos : Nat,
                analyzedRepos : Nat, activeAutomations : Nat]
  /\ mounted \in BOOLEAN
  /\ pc \in [Runs -> {"idle", "tracked", "analyzed", "automations",
                      "list", "call", "delay", "done", "failed", "skipped"}]

InitWith(maxRepos, answers) ==
  /\ stats = [openIssues |-> 0, trackedRepos |-> 0,
              analyzedRepos |-> 0, activeAutomations |-> 0]
  /\ refreshing = [k \in Keys |-> FALSE]
  /\ mounted = TRUE
  /\ toasts = <<>>
  /\ \E n \in 0..maxRepos :
        /\ table = Table(n)
        /\ remote \in [{RepoId(Repo(k)) : k \in 1..n} -> answers]
  /\ pc = [r \in Runs |-> IF r = "auto" THEN "tracked" ELSE "idle"]
  /\ counted = [trackedRepos |-> 0, analyzedRepos |-> 0]
  /\ db = [analyzed |-> 0, jobs |-> 0]
  /\ handlers = <<>>
  /\ repositories = [r \in Runs |-> <<>>]
  /\ i = [r \in Runs |-> 0]
  /\ j = [r \in Runs |-> 0]
  /\ totalOpenIssues = [r \in Runs |-> 0]
  /\ failedRepos = [r \in Runs |-> <<>>]
  /\ calls = [r \in Runs |-> <<>>]
  /\ batches = [r \in Runs |-> <<>>]
  /\ delays = [r \in Runs |-> 0]
  /\ writes = [r \in Runs |-> 0]
  /\ clearCalls = [r \in Runs |-> 0]
  /\ toasted = [r \in Runs |-> 0]
  /\ started = [r \in Runs |-> <<>>]
  /\ added = [r \in Runs |-> <<>>]
  /\ clicks = 0
  /\ userLimiters = [u \in Users |-> 0]
  /\ limiters = <<>>
  /\ clients = <<>>
  /\ reqs = <<>>
  /\ issued = [u \in Users |-> 0]
  /\ refills = 0
  /\ tokenClears = 0
  /\ refreshPc = [k \in SimpleKeys |-> "idle"]
  /\ refreshes = [k \in SimpleKeys |-> 0]
  /\ answered = [h \in 1..MaxEvents |-> NotYet]
  /\ refreshAnswered = [k \in SimpleKeys |-> NotYet]
  /\ refreshSeen = [k \in SimpleKeys |-> 0]

\* The dashboard right after its first render, for every content of the
\* repositories table and every answer of the GitHub side.
Init == InitWith(MaxRepos, Responses)

\* The same with fewer answers of the GitHub side, for the specification
\* that also runs the realtime callbacks.
MergeResponses ==
  {resp \in Responses :
     \/ resp.status = 200 /\ resp.via = "http" /\ resp.total_count = 1
     \/ resp.status = 500}

InitMerge == InitWith(MaxMergeRepos, MergeResponses)

\* ------------------------------------------------- pieces of the run loop
\* Variant: the catch swallows the error without recording the item.
CatchItem_Drop(failed, repo) == failed

\* Variant: a failure is put in front of the list.
CatchItem_Prepend(failed, repo) == <<RepoId(repo)>> \o failed

\* catch (error) { failedRepos.push(`${repo.owner}/${repo.name}`) }
CatchItem(failed, repo) == Append(failed, RepoId(repo))

\* Variant: the count is assigned instead of accumulated.
AddCount_Overwrite(total, res) == IF res.isNull THEN total ELSE res.count

\* count !== null
Counted(res) == ~res.isNull

\* if (count !== null) totalOpenIssues += count
AddCount(total, res) == IF Counted(res) THEN total + res.count ELSE total

\* Variant: one pair of accumulators declared outside the runs.
Acc_Shared(r) == "auto"

\* `let totalOpenIssues = 0; let failedRepos = []` are locals of each run:
\* the accumulators a run reads and writes are its own.
Acc(r) == r

\* Variant: the calls of a batch are all started at once.
FirstCalls_All(batch) == [k \in 1..Len(batch) |-> RepoId(batch[k])]

\* for (const repo of batch) { await withGitHub(...) }: entering a batch
\* starts the call of its first item only.
FirstCalls(batch) == <<RepoId(batch[1])>>

\* Variant: the loop stops one batch early.
LoopContinues_Short(from, n) == from + batchSize < n

\* for (...; i < repositories.length; ...)
LoopContinues(from, n) == from < n

\* Variant: the delay is also taken after the last full batch.
DelayNeeded_Inclusive(from, n) == from + batchSize <= n

\* if (i + batchSize < repositories.length) await the timeout
DelayNeeded(from, n) == from + batchSize < n

\* Variant: the warning is emitted whether or not an item failed.
ShouldWarn_Always(failed) == TRUE

\* if (failedRepos.length > 0) toast(...)
ShouldWarn(failed) == Len(failed) > 0

EndStates == {"done", "failed", "skipped"}

\* ----------------------------------------------------- the end of a run
\* Lines 106-121 (fetchStats) and 253-266, 275-277 (refreshStats.openIssues):
\* the single setStats, the consolidated warning and the finally block.
Finish(r, total, failed) ==
  /\ stats' = IF Live(r) THEN MergeOpenIssues(stats, total) ELSE stats
  /\ writes' = [writes EXCEPT ![r] = IF Live(r) THEN @ + 1 ELSE @]
  /\ toasts' = IF Live(r) /\ ShouldWarn(failed)
               THEN Append(toasts, WarningToast(failed))
               ELSE toasts
  /\ toasted' = [toasted EXCEPT
                   ![r] = IF Live(r) /\ ShouldWarn(failed) THEN @ + 1 ELSE @]
  /\ refreshing' = IF r = "manual"
                   THEN SetRefreshing(refreshing, "openIssues", FALSE)
                   ELSE refreshing
  /\ pc' = [pc EXCEPT ![r] = "done"]

\* The outer catch (lines 123-132 and 268-277).
Catch(r) ==
  /\ toasts' = IF Live(r) THEN Append(toasts, ErrorToast(r)) ELSE toasts
  /\ toasted' = [toasted EXCEPT ![r] = IF Live(r) THEN @ + 1 ELSE @]
  /\ refreshing' = IF r = "manual"
                   THEN SetRefreshing(refreshing, "openIssues", FALSE)
                   ELSE refreshing
  /\ pc' = [pc EXCEPT ![r] = "failed"]
  /\ UNCHANGED <<stats, writes>>

\* The head of the for loop, evaluated with i = from: the next batch starts
\* with its first withGitHub call, or the loop is over and the run ends.
LoopFrom(r, list, from, total, failed) ==
  /\ i' = [i EXCEPT ![r] = from]
  /\ IF LoopContinues(from, Len(list))
     THEN /\ batches' = [batches EXCEPT ![r] = Append(@, Slice(list, from))]
          /\ started' = [started EXCEPT
                           ![r] = @ \o FirstCalls(Slice(list, from))]
          /\ j' = [j EXCEPT ![r] = 0]
          /\ pc' = [pc EXCEPT ![r] = "call"]
          /\ UNCHANGED <<stats, toasts, toasted, writes, refreshing>>
     ELSE /\ Finish(r, total, failed)
          /\ UNCHANGED <<j, batches, started>>

\* -------------------------------------------------------------- actions
\* onClick of the Open Issues card: refreshStats.openIssues starts.
Click ==
  /\ mounted
  /\ ~refreshing["openIssues"]
  /\ pc["manual"] \in {"idle"} \cup EndStates
  /\ clicks < MaxClicks
  /\ clicks' = clicks + 1
  /\ refreshing' = SetRefreshing(refreshing, "openIssues", TRUE)
  /\ pc' = [pc EXCEPT !["manual"] = "list"]
  /\ repositories' = [repositories EXCEPT !["manual"] = <<>>]
  /\ i' = [i EXCEPT !["manual"] = 0]
  /\ j' = [j EXCEPT !["manual"] = 0]
  /\ totalOpenIssues' = [totalOpenIssues EXCEPT ![Acc("manual")] = 0]
  /\ failedRepos' = [failedRepos EXCEPT ![Acc("manual")] = <<>>]
  /\ started' = [started EXCEPT !["manual"] = <<>>]
  /\ added' = [added EXCEPT !["manual"] = <<>>]
  /\ calls' = [calls EXCEPT !["manual"] = <<>>]
  /\ batches' = [batches EXCEPT !["manual"] = <<>>]
  /\ delays' = [delays EXCEPT !["manual"] = 0]
  /\ writes' = [writes EXCEPT !["manual"] = 0]
  /\ toasted' = [toasted EXCEPT !["manual"] = 0]
  /\ clearCalls' = [clearCalls EXCEPT !["manual"] = 0]
  /\ UNCHANGED <<stats, mounted, toasts, db, handlers, envVars, counted>>

\* The `select('owner, name')` query of a run resolves.
ListResolved(r) ==
  /\ pc[r] = "list"
  /\ \E res \in {"error", "null", "data"} :
       IF res = "error"
       THEN /\ Catch(r)
            /\ UNCHANGED <<repositories, i, j, totalOpenIssues, failedRepos,
                           batches, started>>
       ELSE IF res = "null" \/ (r = "auto" /\ ~mounted)
       THEN /\ pc' = [pc EXCEPT ![r] = "skipped"]
            /\ refreshing' = IF r = "manual"
                             THEN SetRefreshing(refreshing, "openIssues",
                                                FALSE)
                             ELSE refreshing
            /\ UNCHANGED <<stats, toasts, toasted, writes, repositories, i, j,
                           totalOpenIssues, failedRepos, batches, started>>
       ELSE /\ repositories' = [repositories EXCEPT ![r] = table]
            /\ totalOpenIssues' = [totalOpenIssues EXCEPT ![Acc(r)] = 0]
            /\ failedRepos' = [failedRepos EXCEPT ![Acc(r)] = <<>>]
            /\ LoopFrom(r, table, 0, 0, <<>>)
  /\ UNCHANGED <<mounted, clicks, db, handlers, envVars, counted, calls,
                 delays, clearCalls, added>>

\* The withGitHub call of the current item of a run resolves or throws.
ItemResolved(r) ==
  /\ pc[r] = "call"
  /\ LET batch == Slice(repositories[r], i[r])
         repo == batch[j[r] + 1]
         res == withGitHub(remote[RepoId(repo)])
         total == IF res.threw THEN totalOpenIssues[Acc(r)]
                  ELSE AddCount(totalOpenIssues[Acc(r)], res)
         failed == IF res.threw THEN CatchItem(failedRepos[Acc(r)], repo)
                   ELSE failedRepos[Acc(r)]
     IN /\ totalOpenIssues' = [totalOpenIssues EXCEPT ![Acc(r)] = total]
        /\ failedRepos' = [failedRepos EXCEPT ![Acc(r)] = failed]
        /\ calls' = [calls EXCEPT ![r] = Append(@, RepoId(repo))]
        /\ added' = [added EXCEPT
                       ![r] = IF ~res.threw /\ Counted(res)
                              THEN Append(@, RepoId(repo)) ELSE @]
        /\ clearCalls' = [clearCalls EXCEPT
                            ![r] = IF res.cleared THEN @ + 1 ELSE @]
        /\ IF j[r] + 1 < Len(batch)
           THEN /\ j' = [j EXCEPT ![r] = @ + 1]
                /\ started' = [started EXCEPT
                                 ![r] = Append(@, RepoId(batch[j[r] + 2]))]
                /\ UNCHANGED <<pc, i, batches, delays, stats, toasts,
                               toasted, writes, refreshing>>
           ELSE IF DelayNeeded(i[r], Len(repositories[r]))
           THEN /\ pc' = [pc EXCEPT ![r] = "delay"]
                /\ delays' = [delays EXCEPT ![r] = @ + 1]
                /\ UNCHANGED <<i, j, batches, started, stats, toasts,
                               toasted, writes, refreshing>>
           ELSE /\ LoopFrom(r, repositories[r], i[r] + batchSize,
                            total, failed)
                /\ UNCHANGED delays
  /\ UNCHANGED <<mounted, clicks, db, handlers, envVars, counted,
                 repositories>>

\* The one second timeout between two batches elapses: i += batchSize.
DelayElapsed(r) ==
  /\ pc[r] = "delay"
  /\ LoopFrom(r, repositories[r], i[r] + batchSize,
              totalOpenIssues[Acc(r)], failedRepos[Acc(r)])
  /\ UNCHANGED <<mounted, clicks, db, handlers, envVars, counted,
                 repositories, totalOpenIssues, failedRepos, calls, delays,
                 clearCalls, added>>

\* The component is torn down: the cleanup of the effect runs.
Unmount ==
  /\ mounted
  /\ mounted' = FALSE
  /\ UNCHANGED <<stats, refreshing, toasts, clicks, db, handlers, envVars,
                 runVars>>

\* One of the first two count queries of fetchStats resolves (lines 33-47).
CountResolved ==
  /\ pc["auto"] \in {"tracked", "analyzed"}
  /\ \E err \in BOOLEAN :
       IF err
       THEN /\ Catch("auto")
            /\ UNCHANGED counted
       ELSE /\ IF pc["auto"] = "tracked"
               THEN /\ counted' = [counted EXCEPT
                                     !.trackedRepos = Len(table)]
                    /\ pc' = [pc EXCEPT !["auto"] = "analyzed"]
               ELSE /\ counted' = [counted EXCEPT
                                     !.analyzedRepos = db.analyzed]
                    /\ pc' = [pc EXCEPT !["auto"] = "automations"]
            /\ UNCHANGED <<stats, toasts, toasted, refreshing, writes>>
  /\ UNCHANGED <<mounted, clicks, db, handlers, envVars, repositories, i, j,
                 totalOpenIssues, failedRepos, calls, batches, delays,
                 clearCalls, started, added>>

\* The third count query of fetchStats resolves (lines 50-69).
AutomationsResolved ==
  /\ pc["auto"] = "automations"
  /\ \E err \in BOOLEAN :
       IF err
       THEN Catch("auto")
       ELSE /\ stats' = IF mounted
                        THEN MergeCounts(stats,
                                         CountOrZero(counted.trackedRepos),
                                         CountOrZero(counted.analyzedRepos),
                                         CountOrZero(db.jobs))
                        ELSE stats
            /\ pc' = [pc EXCEPT !["auto"] = "list"]
            /\ UNCHANGED <<toasts, toasted, refreshing, writes>>
  /\ UNCHANGED <<mounted, clicks, db, handlers, envVars, repositories, i, j,
                 totalOpenIssues, failedRepos, calls, batches, delays,
                 clearCalls, started, added, counted>>

\* One row of `repositories` changes (the count of analyzed repositories
\* moves by one); the repo_changes callback starts.
RepoChange ==
  /\ mounted
  /\ Len(handlers) < MaxEvents
  /\ \E a \in {db.analyzed - 1, db.analyzed + 1} \cap (0..Len(table)) :
       /\ a # db.analyzed
       /\ db' = [db EXCEPT !.analyzed = a]
  /\ handlers' = Append(handlers, [kind |-> "repo", at |-> "tracked",
                                   trackedRepos |-> 0])
  /\ UNCHANGED <<stats, refreshing, mounted, toasts, clicks, envVars,
                 runVars>>

\* A row of `analysis_jobs` changes; the jobs_changes callback starts.
JobsChange ==
  /\ mounted
  /\ Len(handlers) < MaxEvents
  /\ \E b \in 0..MaxJobs :
       /\ b # db.jobs
       /\ db' = [db EXCEPT !.jobs = b]
  /\ handlers' = Append(handlers, [kind |-> "jobs", at |-> "jobs",
                                   trackedRepos |-> 0])
  /\ UNCHANGED <<stats, refreshing, mounted, toasts, clicks, envVars,
                 runVars>>

\* The first count query of a repo_changes callback resolves (153-155).
RepoTrackedResolved(h) ==
  /\ handlers[h].at = "tracked"
  /\ \E count \in {Absent, Answer(answered[h], Len(table))} :
       handlers' = [handlers EXCEPT ![h].at = "analyzed",
                                    ![h].trackedRepos = CountOrZero(count)]
  /\ answered' = [answered EXCEPT ![h] = NotYet]
  /\ UNCHANGED <<stats, refreshing, mounted, toasts, clicks, db, table,
                 remote, clientVars, refreshVars, refreshAnswered,
                 refreshSeen, runVars>>

\* The second count query resolves; the callback merges (160-170).
RepoAnalyzedResolved(h) ==
  /\ handlers[h].at = "analyzed"
  /\ \E count \in {Absent, Answer(answered[h], db.analyzed)} :
       stats' = MergeRepoCounts(stats, handlers[h].trackedRepos,
                                CountOrZero(count))
  /\ handlers' = [handlers EXCEPT ![h].at = "done"]
  /\ answered' = [answered EXCEPT ![h] = NotYet]
  /\ UNCHANGED <<refreshing, mounted, toasts, clicks, db, table, remote,
                 clientVars, refreshVars, refreshAnswered, refreshSeen,
                 runVars>>

\* The count query of a jobs_changes callback resolves; it merges (187-196).
JobsResolved(h) ==
  /\ handlers[h].at = "jobs"
  /\ \E count \in {Absent, Answer(answered[h], db.jobs)} :
       stats' = MergeAutomations(stats, CountOrZero(count))
  /\ handlers' = [handlers EXCEPT ![h].at = "done"]
  /\ answered' = [answered EXCEPT ![h] = NotYet]
  /\ UNCHANGED <<refreshing, mounted, toasts, clicks, db, table, remote,
                 clientVars, refreshVars, refreshAnswered, refreshSeen,
                 runVars>>

\* The aggregation runs: fetchStats and refreshStats.openIssues.
Next ==
  \/ Click
  \/ CountResolved
  \/ AutomationsResolved
  \/ \E r \in Runs : ListResolved(r)
  \/ \E r \in Runs : ItemResolved(r)
  \/ \E r \in Runs : DelayElapsed(r)
  \/ Unmount

Spec == Init /\ [][Next]_vars

\* The aggregation runs together with the realtime callbacks.
NextMerge ==
  \/ Next
  \/ RepoChange
  \/ JobsChange
  \/ \E h \in 1..Len(handlers) : RepoTrackedResolved(h)
  \/ \E h \in 1..Len(handlers) : RepoAnalyzedResolved(h)
  \/ \E h \in 1..Len(handlers) : JobsResolved(h)

SpecMerge == InitMerge /\ [][NextMerge]_vars

\* ------------------------------------------- the other refresh handlers
RefreshErrorToast(key) ==
  [title |-> "Error",
   description |->
     IF key = "trackedRepos"
     THEN "Failed to refresh tracked repositories count."
     ELSE IF key = "analyzedRepos"
     THEN "Failed to refresh analyzed repositories count."
     ELSE "Failed to refresh active automations count."]

\* What the count query of a handler reads at this moment.
RefreshCount(key) ==
  IF key = "trackedRepos" THEN Len(table)
  ELSE IF key = "analyzedRepos" THEN db.analyzed
  ELSE db.jobs

\* setStats(prev => ({ ...prev, [key]: count || 0 }))
MergeKey(prev, key, count) == [prev EXCEPT ![key] = CountOrZero(count)]

\* onClick of one of the three other cards: the handler sets its flag and
\* starts its count query.
RefreshClick(key) ==
  /\ mounted
  /\ ~refreshing[key]
  /\ refreshPc[key] = "idle"
  /\ refreshes[key] < MaxClicks
  /\ refreshes' = [refreshes EXCEPT ![key] = @ + 1]
  /\ refreshing' = SetRefreshing(refreshing, key, TRUE)
  /\ refreshPc' = [refreshPc EXCEPT ![key] = "query"]
  /\ refreshSeen' = [refreshSeen EXCEPT ![key] = Len(handlers)]
  /\ UNCHANGED <<stats, mounted, toasts, clicks, db, handlers, table, remote,
                 clientVars, answered, refreshAnswered, runVars>>

\* The count query of the handler resolves: the merge or the catch, then
\* the finally block.
RefreshResolved(key) ==
  /\ refreshPc[key] = "query"
  /\ \E err \in BOOLEAN :
     \E count \in {Absent, Answer(refreshAnswered[key], RefreshCount(key))} :
       IF err
       THEN /\ toasts' = Append(toasts, RefreshErrorToast(key))
            /\ UNCHANGED stats
       ELSE /\ stats' = MergeKey(stats, key, count)
            /\ UNCHANGED toasts
  /\ refreshing' = SetRefreshing(refreshing, key, FALSE)
  /\ refreshPc' = [refreshPc EXCEPT ![key] = "idle"]
  /\ refreshAnswered' = [refreshAnswered EXCEPT ![key] = NotYet]
  /\ UNCHANGED <<mounted, clicks, db, handlers, table, remote, clientVars,
                 refreshes, answered, refreshSeen, runVars>>

InitRefresh == InitWith(MaxMergeRepos, MergeResponses)

\* The four refresh handlers of the cards.
NextRefresh ==
  \/ Click
  \/ ListResolved("manual")
  \/ ItemResolved("manual")
  \/ DelayElapsed("manual")
  \/ \E key \in SimpleKeys : RefreshClick(key)
  \/ \E key \in SimpleKeys : RefreshResolved(key)
  \/ Unmount

\* Every query, call and timeout a handler awaits resolves in the end.
SpecRefresh ==
  /\ InitRefresh
  /\ [][NextRefresh]_vars
  /\ WF_vars(ListResolved("manual"))
  /\ WF_vars(ItemResolved("manual"))
  /\ WF_vars(DelayElapsed("manual"))
  /\ \A key \in SimpleKeys : WF_vars(RefreshResolved(key))

\* ---------------------------------------------- handlers that overlap
\* The database computes the count of the pending query of a realtime
\* callback before the response is delivered.
Evaluated(h) ==
  /\ handlers[h].at \in {"tracked", "analyzed", "jobs"}
  /\ ~answered[h].done
  /\ answered' = [answered EXCEPT
                    ![h] = [done |-> TRUE,
                            count |-> IF handlers[h].at = "tracked"
                                      THEN Len(table)
                                      ELSE IF handlers[h].at = "analyzed"
                                      THEN db.analyzed
                                      ELSE db.jobs]]
  /\ UNCHANGED <<stats, refreshing, mounted, toasts, clicks, db, handlers,
                 table, remote, clientVars, refreshVars, refreshAnswered,
                 refreshSeen, runVars>>

\* The same for the count query of a refresh handler.
RefreshEvaluated(key) ==
  /\ refreshPc[key] = "query"
  /\ ~refreshAnswered[key].done
  /\ refreshAnswered' = [refreshAnswered EXCEPT
                           ![key] = [done |-> TRUE,
                                     count |-> RefreshCount(key)]]
  /\ UNCHANGED <<stats, refreshing, mounted, toasts, clicks, db, handlers,
                 table, remote, clientVars, refreshVars, answered,
                 refreshSeen, runVars>>

InitRace == InitWith(MaxRaceRepos, MergeResponses)

\* The cards whose count changes while the page is shown.
RaceKeys == {"analyzedRepos", "activeAutomations"}

\* The realtime callbacks and the three count refresh handlers.
NextRace ==
  \/ RepoChange
  \/ JobsChange
  \/ \E h \in 1..Len(handlers) : Evaluated(h)
  \/ \E h \in 1..Len(handlers) : RepoTrackedResolved(h)
  \/ \E h \in 1..Len(handlers) : RepoAnalyzedResolved(h)
  \/ \E h \in 1..Len(handlers) : JobsResolved(h)
  \/ \E key \in RaceKeys : RefreshClick(key)
  \/ \E key \in RaceKeys : RefreshEvaluated(key)
  \/ \E key \in RaceKeys : RefreshResolved(key)
  \/ Unmount

SpecRace == InitRace /\ [][NextRace]_vars

\* ------------------------------------------------ the client of github.ts
\* The responses the GitHub side can give to one fetch.
ClientResponses ==
  [via : {"http"}, status : {200, 204}, remaining : {"1"},
   total_count : {1}]
  \cup [via : {"http"}, status : {401, 403, 500},
        remaining : {"0", "1"}, total_count : {Absent}]

\* new RateLimiter({ tokensPerInterval, interval: 'hour' }): a full bucket
NewLimiter == [tokens |-> tokensPerInterval, taken |-> 0]

\* Variant: the constructor makes a limiter for every client.
NeedsLimiter_Always(map, userId) == TRUE

\* if (!userLimiters.has(userId))
NeedsLimiter(map, userId) == map[userId] = 0

\* The module-level getRepository: the outcome of its response
getRepository(resp) ==
  IF ~ok(resp)
  THEN IF resp.status = 401
       THEN [threw |-> TRUE, cleared |-> TRUE,
             message |-> "GitHub token is invalid or expired",
             body |-> Absent]
       ELSE [threw |-> TRUE, cleared |-> FALSE,
             message |-> "GitHub API error: " \o ToString(resp.status),
             body |-> Absent]
  ELSE [threw |-> FALSE, cleared |-> FALSE, message |-> "",
        body |-> resp.total_count]

NoResponse ==
  [via |-> "none", status |-> 0, remaining |-> "", total_count |-> Absent]

NoOutcome ==
  [threw |-> FALSE, cleared |-> FALSE, message |-> "", body |-> Absent]

pageVars == <<stats, refreshing, mounted, toasts, clicks, db, handlers,
              table, remote, refreshVars, raceVars, runVars>>

InitClient == InitWith(0, ClientResponses)

\* GitHubClientImpl.create(userId) once getToken has resolved: the
\* constructor.
Create(userId) ==
  /\ Len(clients) < MaxClients
  /\ LET need == NeedsLimiter(userLimiters, userId)
         map == IF need
                THEN [userLimiters EXCEPT ![userId] = Len(limiters) + 1]
                ELSE userLimiters
     IN /\ limiters' = IF need THEN Append(limiters, NewLimiter)
                       ELSE limiters
        /\ userLimiters' = map
        /\ clients' = Append(clients,
                             [userId |-> userId, limiter |-> map[userId]])
  /\ UNCHANGED <<reqs, issued, refills, tokenClears, pageVars>>

\* GitHubClientImpl.create(userId) when getToken rejects.
CreateFailed(userId) ==
  /\ tokenClears < MaxClients
  /\ tokenClears' = tokenClears + 1
  /\ UNCHANGED <<userLimiters, limiters, clients, reqs, issued, refills,
                 pageVars>>

\* A method of client c calls this.request: it waits for the limiter.
Request(c) ==
  /\ Len(reqs) < MaxRequests
  /\ reqs' = Append(reqs,
                    [client |-> c, user |-> clients[c].userId,
                     at |-> "removeTokens", acquired |-> FALSE,
                     fetches |-> 0, resp |-> NoResponse,
                     outcome |-> NoOutcome])
  /\ UNCHANGED <<userLimiters, limiters, clients, issued, refills,
                 tokenClears, pageVars>>

\* await this.limiter.removeTokens(1) resolves when the bucket holds a
\* token; the fetch is issued in the same segment.
RemoveTokens(k) ==
  /\ reqs[k].at = "removeTokens"
  /\ LET l == clients[reqs[k].client].limiter
     IN /\ limiters[l].tokens >= 1
        /\ limiters' = [limiters EXCEPT ![l].tokens = @ - 1,
                                        ![l].taken = @ + 1]
  /\ reqs' = [reqs EXCEPT ![k].at = "fetch", ![k].acquired = TRUE,
                          ![k].fetches = @ + 1]
  /\ issued' = [issued EXCEPT ![reqs[k].user] = @ + 1]
  /\ UNCHANGED <<userLimiters, clients, refills, tokenClears, pageVars>>

\* The module-level getRepository is called with the token of userId
\* stored: it awaits GitHubTokenManager.getToken().
GetRepository(userId) ==
  /\ Len(reqs) < MaxRequests
  /\ reqs' = Append(reqs,
                    [client |-> 0, user |-> userId, at |-> "getToken",
                     acquired |-> FALSE, fetches |-> 0,
                     resp |-> NoResponse, outcome |-> NoOutcome])
  /\ UNCHANGED <<userLimiters, limiters, clients, issued, refills,
                 tokenClears, pageVars>>

\* getToken resolved: getRepository issues its fetch.
GotToken(k) ==
  /\ reqs[k].at = "getToken"
  /\ reqs' = [reqs EXCEPT ![k].at = "fetch", ![k].fetches = @ + 1]
  /\ issued' = [issued EXCEPT ![reqs[k].user] = @ + 1]
  /\ UNCHANGED <<userLimiters, limiters, clients, refills, tokenClears,
                 pageVars>>

\* The response of a fetch arrives.
Responded(k) ==
  /\ reqs[k].at = "fetch"
  /\ \E resp \in ClientResponses :
       LET out == IF reqs[k].client = 0 THEN getRepository(resp)
                  ELSE request(resp)
       IN /\ reqs' = [reqs EXCEPT ![k].at = "done", ![k].resp = resp,
                                  ![k].outcome = out]
          /\ tokenClears' = IF out.cleared THEN tokenClears + 1
                            ELSE tokenClears
  /\ UNCHANGED <<userLimiters, limiters, clients, issued, refills,
                 pageVars>>

\* One interval of the limiters elapses: every bucket is full again.
Refill ==
  /\ refills < MaxIntervals
  /\ refills' = refills + 1
  /\ limiters' = [l \in 1..Len(limiters) |-> NewLimiter]
  /\ issued' = [u \in Users |-> 0]
  /\ UNCHANGED <<userLimiters, clients, reqs, tokenClears, pageVars>>

NextClient ==
  \/ \E userId \in Users : Create(userId)
  \/ \E userId \in Users : CreateFailed(userId)
  \/ \E c \in 1..Len(clients) : Request(c)
  \/ \E k \in 1..Len(reqs) : RemoveTokens(k)
  \/ \E userId \in Users : GetRepository(userId)
  \/ \E k \in 1..Len(reqs) : GotToken(k)
  \/ \E k \in 1..Len(reqs) : Responded(k)
  \/ Refill

SpecClient == InitClient /\ [][NextClient]_vars

\* =================================================================
\* Properties
\* =================================================================
Last(s) == s[Len(s)]

Contains(s, x) == \E k \in 1..Len(s) : s[k] = x

Ids(list) == [k \in 1..Len(list) |-> RepoId(list[k])]

Ceil(n, b) == (n + b - 1) \div b

RECURSIVE Flatten(_)
Flatten(ss) == IF Len(ss) = 0 THEN <<>> ELSE ss[1] \o Flatten(Tail(ss))

\* The outcome classes of section 4.1, read off the answer of the remote side.
Unauthorized(resp) == resp.via = "http" /\ resp.status = 401

CallFailed(resp) ==
  resp.via = "http" /\ ~(resp.status \in 200..299)

PerItemFailure(resp) == CallFailed(resp) /\ ~Unauthorized(resp)

ReturnedCount(resp) ==
  IF resp.via = "http" /\ resp.status \in 200..299
     /\ resp.total_count # Absent
  THEN resp.total_count
  ELSE 0

RECURSIVE SumReturned(_)
SumReturned(ids) ==
  IF Len(ids) = 0 THEN 0
  ELSE ReturnedCount(remote[ids[1]]) + SumReturned(Tail(ids))

FailedIds(ids) == SelectSeq(ids, LAMBDA id : CallFailed(remote[id]))

SawUnauthorized(r) ==
  \E k \in 1..Len(calls[r]) : Unauthorized(remote[calls[r][k]])

\* The item of run r whose call resolves in this step.
Resolves(r) == pc[r] = "call" /\ Len(calls'[r]) = Len(calls[r]) + 1

Commits(r) == writes'[r] > writes[r]

\* -----------------------------------------------------------------
\* C1: when the remote call of an item fails with a Transient or
\* RateLimited error, its identifier owner/name is appended to the failed
\* list, the run goes on with the next item (or the delay, or the end of
\* the loop) and a run that entered the loop ends only after every item of
\* its work list was attempted.
C1_FailureIsolation ==
  /\ [][\A r \in Runs :
          (Resolves(r) /\ PerItemFailure(remote[Last(calls'[r])]))
          => /\ failedRepos'[r] = Append(failedRepos[r], Last(calls'[r]))
             /\ pc'[r] \in {"call", "delay", "done"}]_vars
  /\ [](\A r \in Runs :
          (pc[r] \in EndStates /\ Len(calls[r]) > 0)
          => /\ pc[r] = "done"
             /\ calls[r] = Ids(repositories[r]))

C1_Witness ==
  \E r \in Runs :
    /\ pc[r] = "done"
    /\ Len(calls[r]) >= 2
    /\ PerItemFailure(remote[calls[r][1]])
    /\ failedRepos[r][1] = calls[r][1]
    /\ calls[r] = Ids(repositories[r])

\* -----------------------------------------------------------------
\* C2: a 401 answer aborts the run at once: the item is the last one
\* attempted, it is not recorded in the failed list, and the run ends in
\* its outer catch.
C2_UnauthorizedAborts ==
  \A r \in Runs : \A k \in 1..Len(calls[r]) :
    Unauthorized(remote[calls[r][k]])
    => /\ k = Len(calls[r])
       /\ pc[r] = "failed"
       /\ ~Contains(failedRepos[r], calls[r][k])

\* -----------------------------------------------------------------
\* C3: a run in which an item answered 401 never commits: it performs no
\* setStats of openIssues.
C3_NoCommitOnUnauthorized ==
  \A r \in Runs : SawUnauthorized(r) => writes[r] = 0

\* -----------------------------------------------------------------
\* C4: a run in which at least one item answered 401 has invoked
\* GitHubTokenManager.clearToken exactly once when it ends.
C4_ClearedExactlyOnce ==
  \A r \in Runs :
    (pc[r] \in EndStates /\ SawUnauthorized(r)) => clearCalls[r] = 1

\* -----------------------------------------------------------------
\* C5 as stated: a run that completes its loop over N items took
\* ceil(N/B) contiguous batches of at most B items and started the
\* inter-batch delay ceil(N/B) - 1 times, for every N including 0.
BatchesWellFormed(r) ==
  /\ Len(batches[r]) = Ceil(Len(repositories[r]), batchSize)
  /\ \A b \in 1..Len(batches[r]) :
       Len(batches[r][b]) >= 1 /\ Len(batches[r][b]) <= batchSize
  /\ Flatten(batches[r]) = repositories[r]

C5_BatchesAndDelays ==
  \A r \in Runs :
    pc[r] = "done"
    => /\ BatchesWellFormed(r)
       /\ delays[r] = Ceil(Len(repositories[r]), batchSize) - 1

\* C5 amended: the same, with no delay at all for the empty work list.
C5_BatchesAndDelaysAmended ==
  \A r \in Runs :
    pc[r] = "done"
    => /\ BatchesWellFormed(r)
       /\ delays[r] = IF Len(repositories[r]) = 0 THEN 0
                      ELSE Ceil(Len(repositories[r]), batchSize) - 1

C5_Witness ==
  \E r \in Runs :
    /\ pc[r] = "done"
    /\ Len(repositories[r]) > batchSize
    /\ Len(batches[r]) >= 2
    /\ delays[r] >= 1

\* -----------------------------------------------------------------
\* C6: when a run has finished its loop, its total is the sum of the
\* counts returned by the items whose call succeeded and its failed list
\* is exactly the items whose call failed, in work-list order; the value
\* it commits to stats.openIssues is that sum.
C6_TotalAndFailed ==
  /\ [](\A r \in Runs :
          pc[r] = "done"
          => /\ totalOpenIssues[r] = SumReturned(Ids(repositories[r]))
             /\ failedRepos[r] = FailedIds(Ids(repositories[r])))
  /\ [][\A r \in Runs :
          Commits(r)
          => stats'.openIssues = SumReturned(Ids(repositories'[r]))]_vars

C6_Witness ==
  \E r \in Runs :
    /\ pc[r] = "done"
    /\ writes[r] = 1
    /\ Len(repositories[r]) >= 3
    /\ Len(failedRepos[r]) = 1
    /\ totalOpenIssues[r] >= 3
    /\ stats.openIssues = totalOpenIssues[r]

\* -----------------------------------------------------------------
\* C7: once the component is torn down, no aggregation run (automatic or
\* manual) updates stats.openIssues or emits a toast.
C7_AbandonedRunSilent ==
  [][~mounted
     => /\ \A r \in Runs : writes'[r] = writes[r]
        /\ stats'.openIssues = stats.openIssues
        /\ toasts' = toasts]_vars

\* -----------------------------------------------------------------
\* C8: a run writes stats.openIssues at most once, and only when every
\* item of its work list has been attempted; stats.openIssues changes only
\* in such a step, to the final total of the run that commits.
C8_SingleFinalWrite ==
  /\ [](\A r \in Runs :
          /\ writes[r] <= 1
          /\ writes[r] = 1
             => pc[r] = "done" /\ calls[r] = Ids(repositories[r]))
  /\ [][stats'.openIssues # stats.openIssues
        => \E r \in Runs :
             /\ Commits(r)
             /\ pc'[r] = "done"
             /\ calls'[r] = Ids(repositories'[r])
             /\ stats'.openIssues = totalOpenIssues'[r]]_vars

C8_Witness ==
  \E r \in Runs :
    /\ writes[r] = 1
    /\ Len(batches[r]) >= 2
    /\ totalOpenIssues[r] > 0
    /\ stats.openIssues = totalOpenIssues[r]

\* -----------------------------------------------------------------
\* C9: the step in which a run commits emits one Warning toast naming all
\* its failed items when the failed list is not empty and nothing
\* otherwise, and a run that committed has emitted no other toast.
C9_OneConsolidatedWarning ==
  /\ [](\A r \in Runs :
          writes[r] = 1
          => toasted[r] = IF Len(failedRepos[r]) > 0 THEN 1 ELSE 0)
  /\ [][\A r \in Runs :
          Commits(r)
          => toasts' =
               IF Len(FailedIds(Ids(repositories'[r]))) > 0
               THEN Append(toasts,
                      [title |-> "Warning",
                       description |->
                         "Failed to fetch issues for: "
                         \o Join(FailedIds(Ids(repositories'[r])))])
               ELSE toasts]_vars

C9_Witness ==
  \E r \in Runs :
    /\ writes[r] = 1
    /\ Len(failedRepos[r]) >= 2
    /\ toasted[r] = 1
    /\ Len(toasts) >= 1

\* -----------------------------------------------------------------
\* C10: every update of stats changes only the fields of its scope: the
\* commit of a run only openIssues, the initial load and the repo_changes
\* callback never openIssues, the repo_changes callback only trackedRepos
\* and analyzedRepos, the jobs_changes callback only activeAutomations; and
\* openIssues is changed by nothing but the commit of a run.
RepoMerges(h) ==
  handlers[h].kind = "repo" /\ handlers[h].at = "analyzed"
  /\ handlers'[h].at = "done"

JobsMerges(h) ==
  handlers[h].kind = "jobs" /\ handlers[h].at = "jobs"
  /\ handlers'[h].at = "done"

C10_ScopedMerge ==
  [][/\ \A r \in Runs :
          Commits(r)
          => /\ stats'.trackedRepos = stats.trackedRepos
             /\ stats'.analyzedRepos = stats.analyzedRepos
             /\ stats'.activeAutomations = stats.activeAutomations
     /\ \A h \in 1..Len(handlers) :
          /\ RepoMerges(h)
             => /\ stats'.openIssues = stats.openIssues
                /\ stats'.activeAutomations = stats.activeAutomations
          /\ JobsMerges(h)
             => /\ stats'.openIssues = stats.openIssues
                /\ stats'.trackedRepos = stats.trackedRepos
                /\ stats'.analyzedRepos = stats.analyzedRepos
     /\ stats'.openIssues # stats.openIssues
        => \E r \in Runs : Commits(r)]_vars

C10_Witness ==
  /\ \E h \in 1..Len(handlers) :
       handlers[h].kind = "repo" /\ handlers[h].at = "done"
  /\ \E h \in 1..Len(handlers) :
       handlers[h].kind = "jobs" /\ handlers[h].at = "done"
  /\ \E r \in Runs : writes[r] = 1
  /\ stats.openIssues > 0
  /\ stats.trackedRepos > 0
  /\ stats.activeAutomations > 0

\* -----------------------------------------------------------------
\* C11: every fetch issued through github.ts comes after the request
\* took one token from the limiter of its user: no request has issued a
\* fetch without having acquired a token, the module-level getRepository
\* included.
C11_NoBypass ==
  \A k \in 1..Len(reqs) : reqs[k].fetches > 0 => reqs[k].acquired

\* -----------------------------------------------------------------
\* C12: the tokens of every limiter stay within 0..tokensPerInterval and
\* no more than tokensPerInterval fetches are issued with the credential of
\* one user between two refills.
C12_WithinCapacity ==
  /\ \A l \in 1..Len(limiters) :
       limiters[l].tokens \in 0..tokensPerInterval
  /\ \A u \in Users : issued[u] <= tokensPerInterval

\* -----------------------------------------------------------------
\* C13: clients of the same userId hold the same limiter and clients of
\* different userIds hold different ones; the limiter of a userId is created
\* once (one limiter per userId that has an entry) and its entry in
\* userLimiters is never replaced; a request of any client of a user takes
\* its token from that one limiter.
LimiterOf(userId) == userLimiters[userId]

C13_SharedPerUser ==
  /\ [](/\ \A a, b \in 1..Len(clients) :
             (clients[a].userId = clients[b].userId)
             <=> (clients[a].limiter = clients[b].limiter)
        /\ \A a \in 1..Len(clients) :
             /\ clients[a].limiter \in 1..Len(limiters)
             /\ clients[a].limiter = LimiterOf(clients[a].userId)
        /\ Len(limiters) = Cardinality({u \in Users : LimiterOf(u) # 0}))
  /\ [][/\ \A u \in Users :
             LimiterOf(u) # 0 => userLimiters'[u] = userLimiters[u]
        /\ \A a \in 1..Len(clients) : clients'[a] = clients[a]
        /\ \A k \in 1..Len(reqs) :
             (reqs[k].at = "removeTokens" /\ reqs'[k].at = "fetch")
             => limiters'[LimiterOf(reqs[k].user)].tokens
                  = limiters[LimiterOf(reqs[k].user)].tokens - 1]_vars

C13_Witness ==
  \E a, b, c \in 1..Len(clients) :
    /\ a # b
    /\ clients[a].userId = clients[b].userId
    /\ clients[c].userId # clients[a].userId
    /\ clients[a].limiter = clients[b].limiter
    /\ clients[c].limiter # clients[a].limiter
    /\ \E k, m \in 1..Len(reqs) :
         /\ reqs[k].client = a /\ reqs[k].acquired
         /\ reqs[m].client = b /\ reqs[m].acquired

\* -----------------------------------------------------------------
\* C16: request puts every response in exactly one class: 2xx is Success,
\* 401 is Unauthorized, 403 with x-ratelimit-remaining 0 is RateLimited,
\* every other status Transient; the credential is cleared for Unauthorized
\* and for nothing else, and one invocation issues exactly one fetch.
OutcomeOf(out) ==
  IF ~out.threw THEN "Success"
  ELSE IF out.message = "GitHub token is invalid or expired"
  THEN "Unauthorized"
  ELSE IF out.message = "rate limit exceeded" THEN "RateLimited"
  ELSE "Transient"

Expected(resp) ==
  IF resp.status \in 200..299 THEN "Success"
  ELSE IF resp.status = 401 THEN "Unauthorized"
  ELSE IF resp.status = 403 /\ resp.remaining = "0" THEN "RateLimited"
  ELSE "Transient"

C16_Classification ==
  /\ [](\A k \in 1..Len(reqs) :
          reqs[k].client # 0
          => /\ reqs[k].fetches <= 1
             /\ reqs[k].at \in {"fetch", "done"} => reqs[k].fetches = 1
             /\ reqs[k].at = "done"
                => /\ OutcomeOf(reqs[k].outcome) = Expected(reqs[k].resp)
                   /\ reqs[k].outcome.cleared
                      <=> Expected(reqs[k].resp) = "Unauthorized")
  /\ [][\A k \in 1..Len(reqs) :
          (reqs[k].client # 0 /\ reqs[k].at = "fetch"
           /\ reqs'[k].at = "done")
          => tokenClears' - tokenClears
               = IF Expected(reqs'[k].resp) = "Unauthorized" THEN 1
                 ELSE 0]_vars

C16_Witness ==
  \E k, m \in 1..Len(reqs) :
    /\ reqs[k].client # 0 /\ reqs[k].at = "done"
    /\ reqs[k].resp.status = 403 /\ reqs[k].resp.remaining = "0"
    /\ OutcomeOf(reqs[k].outcome) = "RateLimited"
    /\ reqs[m].client # 0 /\ reqs[m].at = "done"
    /\ reqs[m].resp.status = 401 /\ reqs[m].resp.remaining = "0"
    /\ OutcomeOf(reqs[m].outcome) = "Unauthorized"
    /\ tokenClears = 1

\* -----------------------------------------------------------------
\* C14: within one run the remote calls are started in work-list order and
\* one at a time: the calls started so far are a prefix of the work list,
\* the calls resolved so far are a prefix of the calls started, and at most
\* one started call is unresolved (exactly one while the run awaits a call).
InFlight(r) == Len(started[r]) - Len(calls[r])

C14_SequentialInOrder ==
  \A r \in Runs :
    /\ Len(started[r]) <= Len(repositories[r])
    /\ started[r] = SubSeq(Ids(repositories[r]), 1, Len(started[r]))
    /\ Len(calls[r]) <= Len(started[r])
    /\ calls[r] = SubSeq(started[r], 1, Len(calls[r]))
    /\ InFlight(r) = IF pc[r] = "call" THEN 1 ELSE 0

C14_Witness ==
  \E r \in Runs :
    /\ pc[r] = "call"
    /\ j[r] = 1
    /\ Len(calls[r]) = 1
    /\ Len(started[r]) = 2
    /\ started[r][2] = RepoId(repositories[r][2])

\* -----------------------------------------------------------------
\* C15: the failed list keeps the order of the work list: it is a
\* subsequence of the work list, and of two attempted items that both
\* failed with an error other than Unauthorized, the one earlier in the
\* work list is earlier in the failed list.
Position(s, x) == CHOOSE k \in 1..Len(s) : s[k] = x

C15_FailedKeepsOrder ==
  \A r \in Runs :
    /\ failedRepos[r] =
         SelectSeq(Ids(repositories[r]),
                   LAMBDA id : Contains(failedRepos[r], id))
    /\ \A a, b \in 1..Len(calls[r]) :
         (/\ a < b
          /\ PerItemFailure(remote[calls[r][a]])
          /\ PerItemFailure(remote[calls[r][b]]))
         => /\ Contains(failedRepos[r], calls[r][a])
            /\ Contains(failedRepos[r], calls[r][b])
            /\ Position(failedRepos[r], calls[r][a])
                 < Position(failedRepos[r], calls[r][b])

C15_Witness ==
  \E r \in Runs :
    /\ pc[r] = "done"
    /\ Len(repositories[r]) >= 3
    /\ PerItemFailure(remote[RepoId(repositories[r][1])])
    /\ ~CallFailed(remote[RepoId(repositories[r][2])])
    /\ PerItemFailure(remote[RepoId(repositories[r][3])])
    /\ failedRepos[r]
         = <<RepoId(repositories[r][1]), RepoId(repositories[r][3])>>

\* -----------------------------------------------------------------
\* C17: a run's running total and failed list change only in that run's
\* own steps, also while the automatic and the manual run are both under
\* way; a step of one run leaves the accumulators of the other alone, the
\* total of a run is at every moment the sum over the items it resolved,
\* and the value a run commits is the sum over its own work list.
StepOf(r) == pc'[r] # pc[r] \/ calls'[r] # calls[r] \/ j'[r] # j[r]

C17_OwnAccumulators ==
  /\ [](\A r \in Runs :
          pc[r] \in {"call", "delay", "done"}
          => /\ totalOpenIssues[r] = SumReturned(calls[r])
             /\ failedRepos[r] = FailedIds(calls[r]))
  /\ [][\A r \in Runs :
          /\ (totalOpenIssues'[r] # totalOpenIssues[r]
              \/ failedRepos'[r] # failedRepos[r])
             => /\ StepOf(r)
                /\ \A s \in Runs \ {r} : ~StepOf(s)
          /\ Commits(r)
             => /\ stats'.openIssues = totalOpenIssues'[r]
                /\ totalOpenIssues'[r] = SumReturned(Ids(repositories'[r]))
         ]_vars

C17_Witness ==
  /\ writes["manual"] = 1
  /\ pc["auto"] = "call"
  /\ Len(calls["auto"]) >= 1
  /\ totalOpenIssues["auto"] > 0
  /\ totalOpenIssues["manual"] > totalOpenIssues["auto"]
  /\ stats.openIssues = totalOpenIssues["manual"]

\* -----------------------------------------------------------------
\* C18: the commit is idempotent: applying the commit of a run once more
\* to the state it produced gives that state again, and a run that commits
\* the total stats.openIssues already holds leaves every field of stats as
\* it was.
C18_CommitIdempotent ==
  [][\A r \in Runs :
       Commits(r)
       => /\ stats' = MergeOpenIssues(stats, totalOpenIssues'[r])
          /\ MergeOpenIssues(stats', totalOpenIssues'[r]) = stats'
          /\ stats.openIssues = totalOpenIssues'[r] => stats' = stats]_vars

C18_Witness ==
  /\ writes["auto"] = 1
  /\ writes["manual"] = 1
  /\ totalOpenIssues["auto"] = totalOpenIssues["manual"]
  /\ totalOpenIssues["auto"] > 0
  /\ stats.openIssues = totalOpenIssues["auto"]
  /\ stats.trackedRepos > 0

\* -----------------------------------------------------------------
\* C19: in a run that completed, every item of the work list is either
\* one whose count was added to the total or one that is exactly once in
\* the failed list, never both and never neither, so the number of items
\* added plus the length of the failed list is N.
Occurrences(s, x) == Cardinality({k \in 1..Len(s) : s[k] = x})

C19_EveryItemAccounted ==
  \A r \in Runs :
    pc[r] = "done"
    => /\ \A k \in 1..Len(repositories[r]) :
            LET id == RepoId(repositories[r][k])
            IN Occurrences(added[r], id) + Occurrences(failedRepos[r], id)
                 = 1
       /\ Len(added[r]) + Len(failedRepos[r]) = Len(repositories[r])

\* -----------------------------------------------------------------
\* C20: for each of the four refresh handlers, refreshing[key] becomes
\* true in the step that starts the handler, is true exactly while the
\* handler is under way, and is false again in the end on every path
\* (merge, per-item failures, thrown error); a step that changes the flag
\* of one key leaves the flags of the other keys as they were.
Active(key) ==
  IF key = "openIssues" THEN pc["manual"] \in {"list", "call", "delay"}
  ELSE refreshPc[key] = "query"

Starts(key) ==
  IF key = "openIssues" THEN clicks' = clicks + 1
  ELSE refreshes'[key] = refreshes[key] + 1

C20_RefreshingFlag ==
  /\ [](\A key \in Keys : refreshing[key] <=> Active(key))
  /\ [][\A key \in Keys :
          /\ Starts(key) => ~refreshing[key] /\ refreshing'[key]
          /\ refreshing'[key] # refreshing[key]
             => \A other \in Keys \ {key} :
                  refreshing'[other] = refreshing[other]]_vars
  /\ \A key \in Keys : refreshing[key] ~> ~refreshing[key]

C20_Witness ==
  /\ refreshing["openIssues"]
  /\ pc["manual"] = "call"
  /\ Len(failedRepos["manual"]) >= 1
  /\ refreshing["analyzedRepos"]
  /\ refreshes["trackedRepos"] = 1
  /\ ~refreshing["trackedRepos"]
  /\ Contains(toasts, RefreshErrorToast("trackedRepos"))

\* -----------------------------------------------------------------
\* C21: when realtime callbacks (or a callback and a refresh handler of
\* the same field) overlap, a handler that started earlier never writes a
\* field after a handler that started later has written it, and once every
\* handler has finished trackedRepos, analyzedRepos and activeAutomations
\* hold what the latest count query returned: the count the database holds
\* now, or 0 for a null count.
Quiescent ==
  /\ \A h \in 1..Len(handlers) : handlers[h].at = "done"
  /\ \A key \in SimpleKeys : refreshPc[key] = "idle"

FieldKind(key) == IF key = "activeAutomations" THEN "jobs" ELSE "repo"

RefreshMerges(key) ==
  refreshPc[key] = "query" /\ refreshPc'[key] = "idle" /\ toasts' = toasts

LaterFinished(kind, after) ==
  \E h \in (after + 1)..Len(handlers) :
    handlers[h].kind = kind /\ handlers[h].at = "done"

C21_LatestWins ==
  /\ [](Quiescent
        => /\ (\E h \in 1..Len(handlers) : handlers[h].kind = "repo")
              => /\ stats.trackedRepos \in {Len(table), 0}
                 /\ stats.analyzedRepos \in {db.analyzed, 0}
           /\ (\E h \in 1..Len(handlers) : handlers[h].kind = "jobs")
              => stats.activeAutomations \in {db.jobs, 0})
  /\ [][/\ \A h \in 1..Len(handlers) :
             (RepoMerges(h) \/ JobsMerges(h))
             => ~LaterFinished(handlers[h].kind, h)
        /\ \A key \in SimpleKeys :
             RefreshMerges(key)
             => ~LaterFinished(FieldKind(key), refreshSeen[key])]_vars

====
